---------------------------- MODULE Spec2Model ----------------------------
(***************************************************************************)
(* The 2D wave-equation solver of tests/test_wave.py: the device functions *)
(* sample and laplacian, the kernels wave_displace, wave_solve and         *)
(* grid_update, and the frame/substep loop that launches them over the two *)
(* height buffers and swaps the buffer labels.                             *)
(*                                                                         *)
(* Number representation.  Heights and coefficients are integers and the   *)
(* arithmetic of the kernels is exact; IEEE rounding, overflow and NaN are *)
(* outside the model.  The disturbance centre and radius are held in       *)
(* sixths of a cell (the orbit divides the grid size by 2 and by 3), so    *)
(* squared distances are in 36ths.  Angles are held in quarter turns, on   *)
(* which sin and cos are exactly 0, 1, 0, -1; one time step advances       *)
(* sim_time by one quarter turn.                                           *)
(*                                                                         *)
(* Kernel launches.  wp.config.verify_cuda = True (line 16) makes every    *)
(* launch wait for the kernel, so the host is blocked while the cells of a *)
(* kernel run; the cells themselves run one at a time in any order.        *)
(***************************************************************************)
EXTENDS Integers, Sequences, FiniteSets

VARIABLES
    sim_width, sim_height,      \* grid dimensions
    k_damp, grid_displace,      \* damping coefficient, disturbance magnitude
    disp_r,                     \* disturbance radius (sixths of a cell)
    store,                      \* the two device storages: 1..2 -> [cell -> height]
    sim_grid0, sim_grid1,       \* the two buffer labels: each names a storage
    sim_host,                   \* host copy of the height field
    verts_host,                 \* vertex positions, one <<x, y, z>> per cell
    sim_time, cx, cy,           \* elapsed time (steps), disturbance centre
    i, s,                       \* frame and substep counters
    pc,                         \* the host's position in the script
    kernel,                     \* the launch in flight, or NoKernel
    pending,                    \* cells of the launch in flight not yet run
    entry,                      \* [store, verts] as they stood when the launch began
    launches,                   \* every launch, swap, copy and synchronize so far, in order
    copy_src,                   \* storage read by the last wp.copy (0: none yet)
    probe                       \* result of the last direct call of sample

vars == <<sim_width, sim_height, k_damp, grid_displace, disp_r, store,
          sim_grid0, sim_grid1, sim_host, verts_host, sim_time, cx, cy,
          i, s, pc, kernel, pending, entry, launches, copy_src, probe>>

cfgvars == <<sim_width, sim_height, k_damp, grid_displace, disp_r>>

---------------------------------------------------------------------------
(* Bounds of the model *)

Width == 2          \* sim_width of a run (128 in the script)
Height == 2         \* sim_height of a run (128 in the script)
Substeps == 2       \* sim_substeps (16 in the script)
Frames == 2         \* sim_frames (300 in the script)
MaxBase == 1        \* input fields of the kernel harness: offsets 0..MaxBase
MaxSlope == 1       \* input fields of the kernel harness: slopes 0..MaxSlope
Far == 3            \* sample is called up to Far cells outside the grid

---------------------------------------------------------------------------
(* Program constants *)

sim_dt == 1         \* one time step, the unit of sim_time
k_speed == 1
inv_cell == 1       \* 1.0/grid_size, in model units
phase == -1         \* -math.pi*0.5, in quarter turns

NoKernel == [name |-> "none"]
NoProbe == [x |-> 0, y |-> 0, f |-> 0, idx |-> 0, val |-> 0]

Cells(w, h) == 0 .. (w * h - 1)

\* tid//width and tid%width as the generated C evaluates them: the quotient
\* is truncated toward zero and the remainder takes the sign of the dividend
c_div(a, b) ==
    LET q == (IF a < 0 THEN 0 - a ELSE a) \div (IF b < 0 THEN 0 - b ELSE b)
    IN  IF (a < 0) = (b < 0) THEN q ELSE 0 - q

c_mod(a, b) == a - b * c_div(a, b)

\* math.sin and math.cos on quarter turns
Sin(q) == CASE q % 4 = 0 -> 0
            [] q % 4 = 1 -> 1
            [] q % 4 = 2 -> 0
            [] q % 4 = 3 -> -1

Cos(q) == Sin(q + 1)

---------------------------------------------------------------------------
(* Device functions *)

\* a clamp that wraps around the range instead
clamp_wrap(x, a, b) == a + ((x - a) % (b - a + 1))

\* a clamp with no upper limit
clamp_below_only(x, a, b) == IF x < a THEN a ELSE x

\* wp.clamp(x, a, b) = min(max(x, a), b)
clamp(x, a, b) ==
    LET lo == IF x < a THEN a ELSE x
    IN  IF lo > b THEN b ELSE lo

\* wp.load(f, idx)
load(f, idx) == f[idx]

sample_index(x, y, width, height) ==
    LET xc == clamp(x, 0, width - 1)
        yc == clamp(y, 0, height - 1)
    IN  yc * width + xc

\* a sample that reads zero outside the grid instead of the edge cell
sample_zero_outside(f, x, y, width, height) ==
    IF x < 0 \/ x > width - 1 \/ y < 0 \/ y > height - 1
    THEN 0
    ELSE load(f, y * width + x)

sample(f, x, y, width, height) ==
    load(f, sample_index(x, y, width, height))

laplacian(f, x, y, width, height) ==
    LET ddx == sample(f, x + 1, y, width, height)
                 - 2 * sample(f, x, y, width, height)
                 + sample(f, x - 1, y, width, height)
        ddy == sample(f, x, y + 1, width, height)
                 - 2 * sample(f, x, y, width, height)
                 + sample(f, x, y - 1, width, height)
    IN  ddx + ddy

---------------------------------------------------------------------------
(* Kernel bodies: the effect of thread tid of launch k on the storages st *)

\* a disk that includes its rim
inside_or_on(x, y, center_x, center_y, r) ==
    (6 * x - center_x) * (6 * x - center_x)
        + (6 * y - center_y) * (6 * y - center_y) <= r * r

\* dist_sq < r*r, with the cell in whole cells and centre, radius in sixths
inside(x, y, center_x, center_y, r) ==
    LET dx == 6 * x - center_x
        dy == 6 * y - center_y
        dist_sq == dx * dx + dy * dy
    IN  dist_sq < r * r

\* a wave_displace that stamps every cell
wave_displace_everywhere(st, k, tid) ==
    LET h == k.mag * Sin(k.t)
        st1 == [st EXCEPT ![k.hcurrent][tid] = h]
    IN  [st1 EXCEPT ![k.hprevious][tid] = h]

wave_displace(st, k, tid) ==
    LET x == c_mod(tid, k.width)
        y == c_div(tid, k.width)
    IN  IF inside(x, y, k.center_x, k.center_y, k.r)
        THEN LET h == k.mag * Sin(k.t)
                 st1 == [st EXCEPT ![k.hcurrent][tid] = h]
             IN  [st1 EXCEPT ![k.hprevious][tid] = h]
        ELSE st

\* a wave_solve that takes the Laplacian of the buffer it is writing
solve_height_of_output(st, k, tid) ==
    LET x == c_mod(tid, k.width)
        y == c_div(tid, k.width)
        l == laplacian(st[k.hprevious], x, y, k.width, k.height)
               * k.inv_cell * k.inv_cell
        h1 == load(st[k.hcurrent], tid)
        h0 == load(st[k.hprevious], tid)
    IN  2 * h1 - h0 + k.dt * k.dt * (k.k_speed * l - k.k_damp * (h1 - h0))

solve_height(st, k, tid) ==
    LET x == c_mod(tid, k.width)
        y == c_div(tid, k.width)
        l == laplacian(st[k.hcurrent], x, y, k.width, k.height)
               * k.inv_cell * k.inv_cell
        h1 == load(st[k.hcurrent], tid)
        h0 == load(st[k.hprevious], tid)
    IN  2 * h1 - h0 + k.dt * k.dt * (k.k_speed * l - k.k_damp * (h1 - h0))

\* an integrator that updates the field it takes the Laplacian of
wave_solve_in_place(st, k, tid) ==
    [st EXCEPT ![k.hcurrent][tid] = solve_height(st, k, tid)]

wave_solve(st, k, tid) ==
    [st EXCEPT ![k.hprevious][tid] = solve_height(st, k, tid)]

\* a mesh update that puts the height in the third component as well
grid_update_two_components(heights, vertices, tid) ==
    LET h == load(heights, tid)
        v == load(vertices, tid)
    IN  [vertices EXCEPT ![tid] = <<v[1], h, h>>]

grid_update(heights, vertices, tid) ==
    LET h == load(heights, tid)
        v == load(vertices, tid)
        v_new == <<v[1], h, v[3]>>
    IN  [vertices EXCEPT ![tid] = v_new]

---------------------------------------------------------------------------
(* Footprints: the <<buffer, index>> pairs that thread tid of a launch     *)
(* loads and stores                                                        *)

sample_loads(f, x, y, width, height) ==
    {<<f, sample_index(x, y, width, height)>>}

laplacian_loads(f, x, y, width, height) ==
    sample_loads(f, x + 1, y, width, height)
        \cup sample_loads(f, x, y, width, height)
        \cup sample_loads(f, x - 1, y, width, height)
        \cup sample_loads(f, x, y + 1, width, height)
        \cup sample_loads(f, x, y - 1, width, height)

\* wave_displace loads nothing from its buffers
wave_displace_stores(k, tid) ==
    LET x == c_mod(tid, k.width)
        y == c_div(tid, k.width)
    IN  IF inside(x, y, k.center_x, k.center_y, k.r)
        THEN {<<k.hcurrent, tid>>, <<k.hprevious, tid>>}
        ELSE {}

\* an integrator that takes the Laplacian of the buffer it stores to
wave_solve_loads_of_output(k, tid) ==
    LET x == c_mod(tid, k.width)
        y == c_div(tid, k.width)
    IN  laplacian_loads(k.hprevious, x, y, k.width, k.height)
            \cup {<<k.hcurrent, tid>>, <<k.hprevious, tid>>}

wave_solve_loads(k, tid) ==
    LET x == c_mod(tid, k.width)
        y == c_div(tid, k.width)
    IN  laplacian_loads(k.hcurrent, x, y, k.width, k.height)
            \cup {<<k.hcurrent, tid>>, <<k.hprevious, tid>>}

wave_solve_stores(k, tid) == {<<k.hprevious, tid>>}

grid_update_loads(tid) == {<<"heights", tid>>, <<"vertices", tid>>}

grid_update_stores(tid) == {<<"vertices", tid>>}

---------------------------------------------------------------------------
(* Launch records *)

DisplaceLaunch(hcurrent, hprevious, width, height, center_x, center_y, r, mag, t) ==
    [name |-> "wave_displace", hcurrent |-> hcurrent, hprevious |-> hprevious,
     width |-> width, height |-> height, center_x |-> center_x,
     center_y |-> center_y, r |-> r, mag |-> mag, t |-> t]

SolveLaunch(hprevious, hcurrent, width, height, ic, ks, kd, dt) ==
    [name |-> "wave_solve", hprevious |-> hprevious, hcurrent |-> hcurrent,
     width |-> width, height |-> height, inv_cell |-> ic, k_speed |-> ks,
     k_damp |-> kd, dt |-> dt]

UpdateLaunch == [name |-> "grid_update"]

---------------------------------------------------------------------------
(* The script: state after lines 114-201 *)

ZeroField(w, h) == [c \in Cells(w, h) |-> 0]

\* pos = (float(x)*grid_size, 0.0, float(z)*grid_size), in units of grid_size
\* (the loops of lines 178-179 are empty when a dimension is negative)
InitVertices(w, h) ==
    [c \in Cells(w, h) |->
        IF w > 0 /\ h > 0 THEN <<c % w, 0, c \div w>> ELSE <<0, 0, 0>>]

\* a loop test that lets one more frame through
LoopEntry_one_more(frames, substeps) ==
    IF frames < 0 THEN "done"
    ELSE IF substeps <= 0 THEN "copy" ELSE "substep"

LoopEntry(frames, substeps) ==
    IF frames <= 0 THEN "done"
    ELSE IF substeps <= 0 THEN "copy" ELSE "substep"

InitRun(w, h) ==
    /\ sim_width = w
    /\ sim_height = h
    /\ store = [b \in 1..2 |-> ZeroField(w, h)]
    /\ sim_grid0 = 1
    /\ sim_grid1 = 2
    /\ sim_host = ZeroField(w, h)
    /\ verts_host = InitVertices(w, h)
    /\ sim_time = 0
    /\ cx = 0
    /\ cy = 0
    /\ i = 0
    /\ s = 0
    /\ pc = LoopEntry(Frames, Substeps)
    /\ kernel = NoKernel
    /\ pending = {}
    /\ entry = [store |-> store, verts |-> verts_host]
    /\ launches = <<>>
    /\ copy_src = 0
    /\ probe = NoProbe

InitParams ==
    /\ k_damp \in {0, 1}
    /\ grid_displace \in {0, 1}
    /\ disp_r \in {0, 6}

Init ==
    /\ InitParams
    /\ InitRun(Width, Height)

---------------------------------------------------------------------------
(* Host steps of the substep loop, lines 209-232 *)

\* a centre taken from the time the substep will end at
Centre_after_advance ==
    /\ pc = "substep"
    /\ cx' = 3 * sim_width + Sin(sim_time + sim_dt) * 2 * sim_width
    /\ cy' = 3 * sim_height + Cos(sim_time + sim_dt) * 2 * sim_height
    /\ pc' = "displace"
    /\ UNCHANGED <<cfgvars, store, sim_grid0, sim_grid1, sim_host, verts_host,
                   sim_time, i, s, kernel, pending, entry, launches, copy_src,
                   probe>>

\* lines 212-213
Centre ==
    /\ pc = "substep"
    /\ cx' = 3 * sim_width + Sin(sim_time) * 2 * sim_width
    /\ cy' = 3 * sim_height + Cos(sim_time) * 2 * sim_height
    /\ pc' = "displace"
    /\ UNCHANGED <<cfgvars, store, sim_grid0, sim_grid1, sim_host, verts_host,
                   sim_time, i, s, kernel, pending, entry, launches, copy_src,
                   probe>>

Begin(k, next) ==
    /\ kernel' = k
    /\ pending' = Cells(sim_width, sim_height)
    /\ entry' = [store |-> store, verts |-> verts_host]
    /\ launches' = Append(launches, k)
    /\ pc' = next
    /\ UNCHANGED <<cfgvars, store, sim_grid0, sim_grid1, sim_host, verts_host,
                   sim_time, cx, cy, i, s, copy_src, probe>>

\* lines 215-219
LaunchDisplace ==
    /\ pc = "displace"
    /\ Begin(DisplaceLaunch(sim_grid0, sim_grid1, sim_width, sim_height,
                            cx, cy, disp_r, grid_displace, phase),
             "displace_wait")

\* lines 223-227
LaunchSolve ==
    /\ pc = "solve"
    /\ Begin(SolveLaunch(sim_grid0, sim_grid1, sim_width, sim_height,
                         inv_cell, k_speed, k_damp, sim_dt),
             "solve_wait")

\* a loop that forgets the swap
KeepLabels(g0, g1) == <<g0, g1>>

\* a swap written as two assignments in sequence
AliasLabels(g0, g1) == <<g1, g1>>

\* line 230
SwapLabels(g0, g1) == <<g1, g0>>

Swap ==
    /\ pc = "swap"
    /\ sim_grid0' = SwapLabels(sim_grid0, sim_grid1)[1]
    /\ sim_grid1' = SwapLabels(sim_grid0, sim_grid1)[2]
    /\ launches' = Append(launches, [name |-> "swap"])
    /\ pc' = "advance"
    /\ UNCHANGED <<cfgvars, store, sim_host, verts_host, sim_time, cx, cy,
                   i, s, kernel, pending, entry, copy_src, probe>>

\* a frame that goes from its last substep straight to the mesh update
Advance_to_mesh ==
    /\ pc = "advance"
    /\ sim_time' = sim_time + sim_dt
    /\ s' = s + 1
    /\ pc' = IF s + 1 < Substeps THEN "substep" ELSE "mesh"
    /\ UNCHANGED <<cfgvars, store, sim_grid0, sim_grid1, sim_host, verts_host,
                   cx, cy, i, kernel, pending, entry, launches, copy_src,
                   probe>>

\* line 232, and the loop test of line 209
Advance ==
    /\ pc = "advance"
    /\ sim_time' = sim_time + sim_dt
    /\ s' = s + 1
    /\ pc' = IF s + 1 < Substeps THEN "substep" ELSE "copy"
    /\ UNCHANGED <<cfgvars, store, sim_grid0, sim_grid1, sim_host, verts_host,
                   cx, cy, i, kernel, pending, entry, launches, copy_src,
                   probe>>

---------------------------------------------------------------------------
(* Host steps at the end of a frame, lines 235-256 *)

\* line 236
CopyToHost ==
    /\ pc = "copy"
    /\ sim_host' = store[sim_grid0]
    /\ copy_src' = sim_grid0
    /\ launches' = Append(launches, [name |-> "copy", src |-> sim_grid0])
    /\ pc' = "sync"
    /\ UNCHANGED <<cfgvars, store, sim_grid0, sim_grid1, verts_host, sim_time,
                   cx, cy, i, s, kernel, pending, entry, probe>>

\* line 237
Synchronize ==
    /\ pc = "sync"
    /\ kernel = NoKernel
    /\ launches' = Append(launches, [name |-> "synchronize"])
    /\ pc' = "mesh"
    /\ UNCHANGED <<cfgvars, store, sim_grid0, sim_grid1, sim_host, verts_host,
                   sim_time, cx, cy, i, s, kernel, pending, entry, copy_src,
                   probe>>

\* lines 245-248
LaunchUpdate ==
    /\ pc = "mesh"
    /\ Begin(UpdateLaunch, "mesh_wait")

\* lines 250-256, and the loop test of line 204
EndFrame ==
    /\ pc = "usd"
    /\ i' = i + 1
    /\ s' = 0
    /\ pc' = LoopEntry(Frames - (i + 1), Substeps)
    /\ UNCHANGED <<cfgvars, store, sim_grid0, sim_grid1, sim_host, verts_host,
                   sim_time, cx, cy, kernel, pending, entry, launches,
                   copy_src, probe>>

---------------------------------------------------------------------------
(* Device steps: one thread of the launch in flight, and its completion *)

DisplaceCell ==
    /\ kernel.name = "wave_displace"
    /\ \E tid \in pending :
          /\ store' = wave_displace(store, kernel, tid)
          /\ pending' = pending \ {tid}
    /\ UNCHANGED <<cfgvars, sim_grid0, sim_grid1, sim_host, verts_host,
                   sim_time, cx, cy, i, s, pc, kernel, entry, launches,
                   copy_src, probe>>

SolveCell ==
    /\ kernel.name = "wave_solve"
    /\ \E tid \in pending :
          /\ store' = wave_solve(store, kernel, tid)
          /\ pending' = pending \ {tid}
    /\ UNCHANGED <<cfgvars, sim_grid0, sim_grid1, sim_host, verts_host,
                   sim_time, cx, cy, i, s, pc, kernel, entry, launches,
                   copy_src, probe>>

UpdateCell ==
    /\ kernel.name = "grid_update"
    /\ \E tid \in pending :
          /\ verts_host' = grid_update(sim_host, verts_host, tid)
          /\ pending' = pending \ {tid}
    /\ UNCHANGED <<cfgvars, store, sim_grid0, sim_grid1, sim_host, sim_time,
                   cx, cy, i, s, pc, kernel, entry, launches, copy_src, probe>>

\* the statement after a launch
AfterLaunch(p) ==
    CASE p = "displace_wait" -> "solve"
      [] p = "solve_wait" -> "swap"
      [] p = "mesh_wait" -> "usd"
      [] p = "harness" -> "harness_done"

\* a launch that returns as soon as the kernel is queued
ReturnsAtOnce == TRUE

\* wp.launch returns to the script once every thread of the kernel has run
LaunchComplete == pending = {}

KernelDone ==
    /\ kernel # NoKernel
    /\ LaunchComplete
    /\ kernel' = NoKernel
    /\ pc' = AfterLaunch(pc)
    /\ UNCHANGED <<cfgvars, store, sim_grid0, sim_grid1, sim_host, verts_host,
                   sim_time, cx, cy, i, s, pending, entry, launches, copy_src,
                   probe>>

Next ==
    \/ Centre
    \/ LaunchDisplace
    \/ LaunchSolve
    \/ Swap
    \/ Advance
    \/ CopyToHost
    \/ Synchronize
    \/ LaunchUpdate
    \/ EndFrame
    \/ DisplaceCell
    \/ SolveCell
    \/ UpdateCell
    \/ KernelDone

Spec == Init /\ [][Next]_vars

\* the script runs on: the interpreter takes its next statement and every
\* launched thread is eventually run
SpecLive == Spec /\ WF_vars(Next)

\* The same script over other grid dimensions, the negative ones included.
\* The buffers have sim_width*sim_height cells (lines 142-146); dimensions
\* whose product is not positive are left out, since what wp.zeros makes of
\* such a size is decided outside the script.
InitConfig ==
    /\ InitParams
    /\ \E w \in (0 - Width)..Width, h \in (0 - Height)..Height :
          /\ w * h > 0
          /\ InitRun(w, h)

SpecConfig == InitConfig /\ [][Next]_vars

---------------------------------------------------------------------------
(* Kernel harness: one launch of one kernel, or direct calls of sample,    *)
(* over input fields and arguments drawn from bounded sets                 *)

Shapes == {<<1, 1>>, <<3, 1>>, <<1, 3>>, <<2, 3>>, <<3, 3>>}

\* the field c + k*j: flat when k = 0, all heights different otherwise
Field(c, k, w, h) == [j \in Cells(w, h) |-> c + k * j]

Fields(w, h) == {Field(c, k, w, h) : c \in 0..MaxBase, k \in 0..MaxSlope}

\* <<center_x, center_y, r, mag, t>>
DisplaceArgs == {<<6, 6, 6, 1, -1>>, <<6, 6, 9, 2, 1>>, <<9, 10, 9, 1, -1>>,
                 <<6, 0, 0, 1, 1>>}

\* <<inv_cell, k_speed, k_damp, dt>>
SolveArgs == {<<1, 1, 0, 1>>, <<1, 1, 1, 1>>, <<2, 1, 0, 1>>, <<1, 2, 1, 2>>}

InitHarness(w, h, f1, f2, k, p) ==
    /\ sim_width = w
    /\ sim_height = h
    /\ store = [b \in 1..2 |-> IF b = 1 THEN f1 ELSE f2]
    /\ sim_grid0 = 1
    /\ sim_grid1 = 2
    /\ sim_host = ZeroField(w, h)
    /\ verts_host = InitVertices(w, h)
    /\ sim_time = 0
    /\ cx = 0
    /\ cy = 0
    /\ i = 0
    /\ s = 0
    /\ pc = p
    /\ kernel = k
    /\ pending = IF k = NoKernel THEN {} ELSE Cells(w, h)
    /\ entry = [store |-> store, verts |-> verts_host]
    /\ launches = IF k = NoKernel THEN <<>> ELSE <<k>>
    /\ copy_src = 0
    /\ probe = NoProbe

InitDisplace ==
    \E sh \in Shapes, a \in DisplaceArgs :
      \E f1 \in Fields(sh[1], sh[2]), f2 \in {Field(20, 1, sh[1], sh[2])} :
        /\ k_damp = 0
        /\ grid_displace = a[4]
        /\ disp_r = a[3]
        /\ InitHarness(sh[1], sh[2], f1, f2,
                       DisplaceLaunch(1, 2, sh[1], sh[2], a[1], a[2], a[3], a[4], a[5]),
                       "harness")

\* the 4x4 scenario: centre (2,2), radius 1.5, magnitude 1, phase -pi/2
InitScenario ==
    /\ k_damp = 0
    /\ grid_displace = 1
    /\ disp_r = 9
    /\ InitHarness(4, 4, Field(1, 1, 4, 4), Field(20, 1, 4, 4),
                   DisplaceLaunch(1, 2, 4, 4, 12, 12, 9, 1, -1), "harness")

InitSolve ==
    \E sh \in Shapes, a \in SolveArgs :
      \E f1 \in Fields(sh[1], sh[2]), f2 \in Fields(sh[1], sh[2]) :
        /\ k_damp = a[3]
        /\ grid_displace = 0
        /\ disp_r = 0
        /\ InitHarness(sh[1], sh[2], f1, f2,
                       SolveLaunch(1, 2, sh[1], sh[2], a[1], a[2], a[3], a[4]),
                       "harness")

InitSample ==
    \E sh \in Shapes :
      \E f1 \in Fields(sh[1], sh[2]) :
        /\ k_damp = 0
        /\ grid_displace = 0
        /\ disp_r = 0
        /\ InitHarness(sh[1], sh[2], f1, ZeroField(sh[1], sh[2]), NoKernel, "probe")

\* grid_update over heights h and the vertices of lines 178-183
InitUpdate ==
    \E sh \in Shapes :
      \E f \in Fields(sh[1], sh[2]) :
        /\ k_damp = 0
        /\ grid_displace = 0
        /\ disp_r = 0
        /\ sim_width = sh[1]
        /\ sim_height = sh[2]
        /\ store = [b \in 1..2 |-> ZeroField(sh[1], sh[2])]
        /\ sim_grid0 = 1
        /\ sim_grid1 = 2
        /\ sim_host = f
        /\ verts_host = InitVertices(sh[1], sh[2])
        /\ sim_time = 0
        /\ cx = 0
        /\ cy = 0
        /\ i = 0
        /\ s = 0
        /\ pc = "harness"
        /\ kernel = UpdateLaunch
        /\ pending = Cells(sh[1], sh[2])
        /\ entry = [store |-> store, verts |-> verts_host]
        /\ launches = <<UpdateLaunch>>
        /\ copy_src = 0
        /\ probe = NoProbe

InitKernel == InitDisplace \/ InitScenario \/ InitSolve \/ InitSample \/ InitUpdate

\* s = sample(sim_grid0, x, y, sim_width, sim_height), called directly
SampleCall ==
    /\ pc = "probe"
    /\ \E x \in (0 - Far) .. (sim_width - 1 + Far),
          y \in (0 - Far) .. (sim_height - 1 + Far) :
          probe' = [x |-> x, y |-> y, f |-> sim_grid0,
                    idx |-> sample_index(x, y, sim_width, sim_height),
                    val |-> sample(store[sim_grid0], x, y, sim_width, sim_height)]
    /\ UNCHANGED <<cfgvars, store, sim_grid0, sim_grid1, sim_host, verts_host,
                   sim_time, cx, cy, i, s, pc, kernel, pending, entry,
                   launches, copy_src>>

NextKernel ==
    \/ SampleCall
    \/ DisplaceCell
    \/ SolveCell
    \/ UpdateCell
    \/ KernelDone

SpecKernel == InitKernel /\ [][NextKernel]_vars

---------------------------------------------------------------------------
(* Properties *)

IsSolve(k) == k.name = "wave_solve"

\* the wave_solve launches so far, in order
Solves == SelectSeq(launches, IsSolve)

\* the stencil value at (x, y), out-of-grid coordinates moved to the nearest edge
EdgeValue(f, x, y, w, h) ==
    LET xx == IF x < 0 THEN 0 ELSE IF x > w - 1 THEN w - 1 ELSE x
        yy == IF y < 0 THEN 0 ELSE IF y > h - 1 THEN h - 1 ELSE y
    IN  f[yy * w + xx]

\* 2*h1 - h0 + dt*dt*(k_speed*l - k_damp*(h1 - h0)) on the storages e
Leapfrog(e, k, tid) ==
    LET w == k.width
        h == k.height
        x == tid % w
        y == tid \div w
        cur == e[k.hcurrent]
        lap == EdgeValue(cur, x + 1, y, w, h) + EdgeValue(cur, x - 1, y, w, h)
                 + EdgeValue(cur, x, y + 1, w, h) + EdgeValue(cur, x, y - 1, w, h)
                 - 4 * cur[tid]
        l == lap * k.inv_cell * k.inv_cell
        h1 == cur[tid]
        h0 == e[k.hprevious][tid]
    IN  2 * h1 - h0 + k.dt * k.dt * (k.k_speed * l - k.k_damp * (h1 - h0))

\* C1: while a wave_solve launch runs, in whatever order its cells are taken,
\* the buffer it reads is as it stood at kernel entry, every cell not yet run
\* still holds its entry value in hprevious, and every cell that has run holds
\* the leapfrog value computed from the kernel-entry buffers; so the finished
\* launch leaves hprevious[i] = 2*h1 - h0 + dt*dt*(k_speed*l - k_damp*(h1-h0))
\* for every i, whatever the order.
C1_SolveReadsEntryState ==
    (kernel.name = "wave_solve" /\ kernel.width > 0 /\ kernel.height > 0) =>
        /\ store[kernel.hcurrent] = entry.store[kernel.hcurrent]
        /\ \A tid \in Cells(kernel.width, kernel.height) :
              store[kernel.hprevious][tid] =
                  IF tid \in pending
                  THEN entry.store[kernel.hprevious][tid]
                  ELSE Leapfrog(entry.store, kernel, tid)

C1_Witness ==
    /\ kernel.name = "wave_solve"
    /\ pending = {}
    /\ kernel.width = 3
    /\ kernel.height = 3
    /\ kernel.k_damp = 1
    /\ \A tid \in Cells(3, 3) :
          store[kernel.hprevious][tid] # entry.store[kernel.hprevious][tid]

\* C2: every wave_solve launch after the first reads the Laplacian from the
\* storage that the launch before it wrote (the newest time level) and
\* overwrites the storage that the launch before it read (the oldest), and
\* the two are different storages.
C2_OverwritesOldest ==
    \A n \in 1..Len(Solves) :
        /\ Solves[n].hprevious # Solves[n].hcurrent
        /\ n > 1 => /\ Solves[n].hcurrent = Solves[n - 1].hprevious
                    /\ Solves[n].hprevious = Solves[n - 1].hcurrent

C2_Witness ==
    /\ Len(Solves) >= 3
    /\ pc = "swap"
    /\ store[1] # store[2]

\* C3: the height field copied to the host at the end of a frame is the
\* newest state, the one written by the frame's last wave_solve launch.
C3_HostGetsNewest ==
    (pc = "sync" /\ Len(Solves) > 0) =>
        sim_host = store[Solves[Len(Solves)].hprevious]

\* C4: the swap is a pure relabeling: a step that changes a label changes no
\* cell of either storage and exchanges the two labels, so what was reachable
\* under one label is reachable under the other; and the labels always name
\* the two different storages.
C4_SwapRelabels ==
    /\ [](sim_grid0 # sim_grid1 /\ {sim_grid0, sim_grid1} = {1, 2})
    /\ [][(pc = "swap" \/ sim_grid0' # sim_grid0 \/ sim_grid1' # sim_grid1) =>
            /\ store' = store
            /\ sim_grid0' = sim_grid1
            /\ sim_grid1' = sim_grid0
            /\ store'[sim_grid0'] = store[sim_grid1]
            /\ store'[sim_grid1'] = store[sim_grid0]]_vars

C4_Witness ==
    /\ pc = "advance"
    /\ s = 1
    /\ sim_grid0 = 1
    /\ store[1] # store[2]

\* squared distance of cell tid from the centre of launch k, in 36ths
DistSq36(k, tid) ==
    LET x == tid % k.width
        y == tid \div k.width
    IN  (6 * x - k.center_x) * (6 * x - k.center_x)
          + (6 * y - k.center_y) * (6 * y - k.center_y)

Scenario4x4 ==
    /\ kernel.name = "wave_displace"
    /\ kernel.width = 4
    /\ kernel.height = 4
    /\ kernel.center_x = 12
    /\ kernel.center_y = 12
    /\ kernel.r = 9
    /\ kernel.mag = 1
    /\ Sin(kernel.t) = -1

\* C5: a wave_displace launch sets both buffers at i to mag*sin(t) for every
\* cell i = y*width + x that has run and lies strictly inside the disk
\* ((x-cx)^2 + (y-cy)^2 < r^2), and leaves both buffers at i as they were at
\* kernel entry for every other cell; on the 4x4 grid with centre (2,2),
\* radius 1.5, magnitude 1 and sin(phase) = -1 the finished launch has set
\* exactly the nine cells with x, y in {1,2,3} to -1 in both buffers and the
\* other seven hold their prior values.
C5_DisplaceStampsDisk ==
    (kernel.name = "wave_displace" /\ kernel.width > 0 /\ kernel.height > 0) =>
        /\ \A tid \in Cells(kernel.width, kernel.height), b \in 1..2 :
              store[b][tid] =
                  IF tid \notin pending /\ DistSq36(kernel, tid) < kernel.r * kernel.r
                  THEN kernel.mag * Sin(kernel.t)
                  ELSE entry.store[b][tid]
        /\ (Scenario4x4 /\ pending = {}) =>
              \A x \in 0..3, y \in 0..3, b \in 1..2 :
                  store[b][y * 4 + x] =
                      IF x \in {1, 2, 3} /\ y \in {1, 2, 3}
                      THEN -1
                      ELSE entry.store[b][y * 4 + x]

C5_Witness ==
    /\ Scenario4x4
    /\ pending = {}
    /\ Cardinality({c \in Cells(4, 4) : store[1][c] = -1 /\ store[2][c] = -1}) = 9
    /\ Cardinality({c \in Cells(4, 4) : store[1][c] = entry.store[1][c]
                                          /\ store[2][c] = entry.store[2][c]}) = 7

\* C6: for every grid with W, H >= 1 and every integers x, y, far outside the
\* grid included, sample(f, x, y, W, H) loads an index inside the buffer,
\* returns f[clamp(y,0,H-1)*W + clamp(x,0,W-1)] (the cell of the grid nearest
\* to (x, y), never a wrapped-around one), and equals sample at the clamped
\* coordinates.
C6_SampleClamps ==
    (pc = "probe" /\ probe.f # 0) =>
        LET w == sim_width
            h == sim_height
            f == store[probe.f]
            xx == IF probe.x < 0 THEN 0 ELSE IF probe.x > w - 1 THEN w - 1 ELSE probe.x
            yy == IF probe.y < 0 THEN 0 ELSE IF probe.y > h - 1 THEN h - 1 ELSE probe.y
        IN  /\ probe.idx \in Cells(w, h)
            /\ probe.idx = yy * w + xx
            /\ probe.val = f[yy * w + xx]
            /\ probe.val = sample(f, xx, yy, w, h)

C6_Witness ==
    /\ pc = "probe"
    /\ probe.f # 0
    /\ sim_width = 3
    /\ sim_height = 3
    /\ probe.x = 0 - Far
    /\ probe.y = 2 + Far
    /\ probe.val = 7
    /\ store[probe.f][0] # store[probe.f][6]

\* C7: from two zero buffers, with damping 0 and no disturbance (magnitude 0,
\* or a disk that holds no cell), every cell of both buffers stays zero
\* through any number of substeps.
C7_ZeroStaysZero ==
    (k_damp = 0 /\ (grid_displace = 0 \/ disp_r = 0)
       /\ sim_width > 0 /\ sim_height > 0) =>
        \A b \in 1..2, c \in Cells(sim_width, sim_height) : store[b][c] = 0

C7_Witness ==
    /\ k_damp = 0
    /\ grid_displace = 1
    /\ disp_r = 0
    /\ pc = "done"
    /\ Len(Solves) = Frames * Substeps
    /\ \A b \in 1..2, c \in Cells(sim_width, sim_height) : store[b][c] = 0

\* the storages e hold the same height v in every cell of both buffers
Flat(e, w, h, v) == \A b \in 1..2, c \in Cells(w, h) : e[b][c] = v

\* C8: on a flat field with current = previous (the same height c in every
\* cell of both buffers) and damping 0, wave_solve writes c at every cell,
\* the edge and corner cells included.
C8_FlatFieldKept ==
    (kernel.name = "wave_solve" /\ kernel.k_damp = 0
       /\ kernel.width > 0 /\ kernel.height > 0) =>
        \A v \in 0..(MaxBase + 1) :
            Flat(entry.store, kernel.width, kernel.height, v) =>
                Flat(store, kernel.width, kernel.height, v)

C8_Witness ==
    /\ kernel.name = "wave_solve"
    /\ kernel.k_damp = 0
    /\ kernel.inv_cell = 2
    /\ kernel.width = 3
    /\ kernel.height = 3
    /\ pending = {}
    /\ Flat(entry.store, 3, 3, 1)
    /\ Flat(store, 3, 3, 1)

\* the storages after the cells 0..n-1 of launch k have run in index order
RECURSIVE InOrder(_, _, _)
InOrder(st, k, n) ==
    IF n = 0 THEN st
    ELSE LET before == InOrder(st, k, n - 1)
         IN  IF k.name = "wave_displace"
             THEN wave_displace(before, k, n - 1)
             ELSE wave_solve(before, k, n - 1)

\* the storages after n substeps of a run that takes the cells of every
\* launch in index order, from zero buffers and the configuration in force
RECURSIVE InOrderRun(_)
InOrderRun(n) ==
    IF n = 0 THEN [b \in 1..2 |-> ZeroField(sim_width, sim_height)]
    ELSE LET before == InOrderRun(n - 1)
             t == (n - 1) * sim_dt
             g0 == IF (n - 1) % 2 = 0 THEN 1 ELSE 2
             g1 == 3 - g0
             cells == sim_width * sim_height
             d == DisplaceLaunch(g0, g1, sim_width, sim_height,
                                 3 * sim_width + Sin(t) * 2 * sim_width,
                                 3 * sim_height + Cos(t) * 2 * sim_height,
                                 disp_r, grid_displace, phase)
             v == SolveLaunch(g0, g1, sim_width, sim_height, inv_cell,
                              k_speed, k_damp, sim_dt)
         IN  InOrder(InOrder(before, d, cells), v, cells)

\* C9: whatever order the cells of each launch ran in, a run ends every
\* substep with both buffers equal to those of the run of the same
\* configuration and the same number of substeps that takes the cells in
\* index order; so two runs of one configuration from the same buffers agree
\* in both buffers after the same number of substeps.
C9_Deterministic ==
    (pc \in {"swap", "advance", "substep", "displace", "copy", "sync", "mesh",
             "mesh_wait", "usd", "done"}) =>
        store = InOrderRun(Len(Solves))

C9_Witness ==
    /\ pc = "done"
    /\ Len(Solves) = Frames * Substeps
    /\ grid_displace = 1
    /\ disp_r = 6
    /\ store[1] # store[2]
    /\ \E c \in Cells(sim_width, sim_height) : store[sim_grid1][c] > 1

\* C10: when the grid width or height is not positive, the run fails before
\* any kernel is launched and before any buffer cell is written.
C10_FailsBeforeLaunch ==
    (sim_width <= 0 \/ sim_height <= 0) =>
        /\ launches = <<>>
        /\ store = [b \in 1..2 |-> ZeroField(sim_width, sim_height)]

IsLaunch(k) == k.name \in {"wave_displace", "wave_solve", "grid_update"}

\* C11: between kernel invocations there is a full barrier: while threads of
\* a launch are in flight the script waits at that launch; a launch, a label
\* swap, a copy or an advance of time begins only when no launch is in flight
\* and no thread of an earlier launch is left to run; and every thread that
\* runs belongs to the one launch in flight, the last one launched.  So no
\* wave_solve thread runs before every wave_displace thread of its substep
\* has written, and no thread of the next launch before every wave_solve
\* thread has.
C11_Barrier ==
    /\ [](/\ (kernel = NoKernel) => pending = {}
          /\ (kernel # NoKernel) =>
                /\ pc \in {"displace_wait", "solve_wait", "mesh_wait", "harness"}
                /\ kernel = launches[Len(launches)])
    /\ [][(launches' # launches \/ sim_time' # sim_time) =>
             (kernel = NoKernel /\ pending = {})]_vars
    /\ [][(pending' # pending /\ kernel' = kernel) =>
             \E tid \in pending : pending' = pending \ {tid}]_vars

C11_Witness ==
    /\ kernel.name = "wave_solve"
    /\ pending = Cells(sim_width, sim_height)
    /\ Len(SelectSeq(launches, IsLaunch)) = 4
    /\ launches[Len(launches) - 1].name = "wave_displace"
    /\ \E c \in Cells(sim_width, sim_height) :
          store[kernel.hprevious][c] = -1 /\ store[kernel.hcurrent][c] = -1

IsCopy(k) == k.name = "copy"

\* C12: in every frame the mesh update reads sim_host only after all of the
\* frame's substep kernels, then the copy to the host, then the synchronize:
\* while grid_update runs, the two steps before its launch were the copy and
\* the synchronize of this frame, every substep of the frame has been
\* launched and has finished, and sim_host is the whole of the copied
\* storage as it stands now, not a part of it and not the copy of an earlier
\* frame.
C12_MeshAfterCopyAndSync ==
    (kernel.name = "grid_update") =>
        LET n == Len(launches)
        IN  /\ n >= 3
            /\ launches[n - 1].name = "synchronize"
            /\ launches[n - 2].name = "copy"
            /\ Len(Solves) = (i + 1) * Substeps
            /\ Len(SelectSeq(launches, IsCopy)) = i + 1
            /\ sim_host = store[launches[n - 2].src]

C12_Witness ==
    /\ kernel.name = "grid_update"
    /\ i = 1
    /\ pending = {}
    /\ sim_host # ZeroField(sim_width, sim_height)
    /\ \E c \in Cells(sim_width, sim_height) : sim_host[c] < -1

IsSubstepEvent(k) == k.name \in {"wave_displace", "wave_solve", "swap"}

\* the injector launches, integrator launches and swaps so far, in order
SubstepEvents == SelectSeq(launches, IsSubstepEvent)

IsSwap(k) == k.name = "swap"

\* the number of swaps so far
Swaps == Len(SelectSeq(launches, IsSwap))

\* the number of substeps whose time advance has been made
SubstepsDone == i * Substeps + s

\* C13: every substep takes its steps in one order: the centre is computed
\* from the elapsed time as it stands before the substep's advance, then the
\* injector is launched over the whole grid, then the integrator over the
\* whole grid, then the labels are swapped, then the time advances by one
\* sim_dt; so after k substeps the elapsed time is k*sim_dt and k swaps
\* have been made.
C13_SubstepOrder ==
    /\ sim_time = SubstepsDone * sim_dt
    /\ Swaps = SubstepsDone + (IF pc = "advance" THEN 1 ELSE 0)
    /\ \A n \in 1..Len(SubstepEvents) :
          LET ev == SubstepEvents[n]
              k == (n - 1) \div 3
          IN  /\ ev.name = CASE (n - 1) % 3 = 0 -> "wave_displace"
                             [] (n - 1) % 3 = 1 -> "wave_solve"
                             [] (n - 1) % 3 = 2 -> "swap"
              /\ ev.name = "wave_displace" =>
                    /\ ev.center_x = 3 * sim_width + Sin(k * sim_dt) * 2 * sim_width
                    /\ ev.center_y = 3 * sim_height + Cos(k * sim_dt) * 2 * sim_height
              /\ ev.name \in {"wave_displace", "wave_solve"} =>
                    /\ ev.width = sim_width
                    /\ ev.height = sim_height
    /\ pc \in {"displace", "displace_wait"} =>
          /\ cx = 3 * sim_width + Sin(sim_time) * 2 * sim_width
          /\ cy = 3 * sim_height + Cos(sim_time) * 2 * sim_height
          /\ Len(SubstepEvents) = 3 * SubstepsDone + (IF pc = "displace" THEN 0 ELSE 1)
    /\ pc \in {"solve", "solve_wait"} =>
          Len(SubstepEvents) = 3 * SubstepsDone + (IF pc = "solve" THEN 1 ELSE 2)
    /\ pc = "swap" => Len(SubstepEvents) = 3 * SubstepsDone + 2
    /\ pc \in {"substep", "copy", "sync", "mesh", "mesh_wait", "usd", "done"} =>
          Len(SubstepEvents) = 3 * SubstepsDone
    /\ pc \in {"displace_wait", "solve_wait"} =>
          /\ kernel.name = (IF pc = "displace_wait" THEN "wave_displace"
                                                    ELSE "wave_solve")
          /\ pending \subseteq Cells(sim_width, sim_height)
    /\ pc \in {"solve", "swap", "advance"} => pending = {}

C13_Witness ==
    /\ pc = "copy"
    /\ i = 1
    /\ sim_time = Frames * Substeps * sim_dt
    /\ Swaps = Frames * Substeps
    /\ Len(SubstepEvents) = 3 * Frames * Substeps

IsFrameEvent(k) == k.name \in {"wave_solve", "synchronize", "grid_update"}

\* the integrator launches, synchronisations and mesh updates so far, in order
FrameEvents == SelectSeq(launches, IsFrameEvent)

Count(name) == Len(SelectSeq(launches, LAMBDA k : k.name = name))

\* C14: the run ends: it makes sim_frames frames, each of sim_substeps
\* substeps followed by one host synchronisation and one mesh update, and then
\* rests in its final state, where nothing more is launched.
C14_Terminates ==
    /\ <>(pc = "done")
    /\ [](/\ \A n \in 1..Len(FrameEvents) :
                FrameEvents[n].name =
                    (IF (n - 1) % (Substeps + 2) < Substeps THEN "wave_solve"
                     ELSE IF (n - 1) % (Substeps + 2) = Substeps THEN "synchronize"
                     ELSE "grid_update")
          /\ pc = "done" =>
                /\ i = Frames
                /\ kernel = NoKernel
                /\ pending = {}
                /\ Count("wave_displace") = Frames * Substeps
                /\ Count("wave_solve") = Frames * Substeps
                /\ Count("swap") = Frames * Substeps
                /\ Count("copy") = Frames
                /\ Count("synchronize") = Frames
                /\ Count("grid_update") = Frames
                /\ Len(FrameEvents) = Frames * (Substeps + 2))
    /\ [][pc = "done" => (pc' = "done" /\ launches' = launches)]_vars

C14_Witness ==
    /\ pc = "done"
    /\ i = Frames
    /\ Count("grid_update") = Frames
    /\ store[1] # ZeroField(sim_width, sim_height)

\* C15: one wave_solve launch changes no cell of hcurrent; the thread of
\* cell tid stores to hprevious[tid] and nowhere else, and every cell's thread
\* runs once, so every cell of hprevious is written exactly once.
C15_SolveFrame ==
    /\ [](kernel.name = "wave_solve" =>
            /\ kernel.hprevious # kernel.hcurrent
            /\ store[kernel.hcurrent] = entry.store[kernel.hcurrent]
            /\ \A c \in pending :
                  store[kernel.hprevious][c] = entry.store[kernel.hprevious][c])
    /\ [][(kernel.name = "wave_solve" /\ (store' # store \/ pending' # pending)) =>
            \E tid \in pending :
               /\ pending' = pending \ {tid}
               /\ \A b \in DOMAIN store :
                     \A c \in DOMAIN store[b] :
                        store'[b][c] # store[b][c] =>
                           <<b, c>> \in wave_solve_stores(kernel, tid)]_vars
    /\ [][(kernel.name = "wave_solve" /\ kernel' # kernel) => pending = {}]_vars

C15_Witness ==
    /\ kernel.name = "wave_solve"
    /\ pending = {}
    /\ kernel.width = 2
    /\ kernel.height = 3
    /\ store[kernel.hcurrent] = Field(1, 1, 2, 3)
    /\ store[kernel.hprevious] # entry.store[kernel.hprevious]

\* C16: grid_update changes only the vertical component of the vertices: once
\* the thread of vertex c has run, the vertex has the first and third
\* components it had at launch and heights[c] as its second; a vertex whose
\* thread has not run is as it was at launch; the heights are not modified.
C16_UpdateFrame ==
    /\ [](/\ kernel.name = "grid_update" =>
                \A c \in Cells(sim_width, sim_height) :
                   verts_host[c] =
                      (IF c \in pending THEN entry.verts[c]
                       ELSE <<entry.verts[c][1], sim_host[c], entry.verts[c][3]>>)
          /\ \A c \in Cells(sim_width, sim_height) :
                /\ verts_host[c][1] = InitVertices(sim_width, sim_height)[c][1]
                /\ verts_host[c][3] = InitVertices(sim_width, sim_height)[c][3])
    /\ [][kernel.name = "grid_update" =>
            (sim_host' = sim_host /\ store' = store)]_vars

C16_Witness ==
    /\ kernel.name = "grid_update"
    /\ pending = {}
    /\ i = 1
    /\ \E c \in Cells(sim_width, sim_height) :
          /\ entry.verts[c][2] # 0
          /\ verts_host[c][2] # entry.verts[c][2]
    /\ \E c \in Cells(sim_width, sim_height) :
          /\ verts_host[c][3] = 1
          /\ verts_host[c][2] # 0

\* the buffers loaded from, and stored to, by the threads of launch k
BuffersLoaded(k) ==
    {p[1] : p \in UNION {wave_solve_loads(k, tid) : tid \in Cells(k.width, k.height)}}

BuffersStored(k) ==
    {p[1] : p \in UNION {wave_solve_stores(k, tid) : tid \in Cells(k.width, k.height)}}

\* C17, as stated: the set of buffers one wave_solve launch loads from and
\* the set of buffers it stores to are disjoint.
C17_BuffersDisjoint ==
    (kernel.name = "wave_solve") => BuffersLoaded(kernel) \cap BuffersStored(kernel) = {}

\* C17, amended: a wave_solve launch stores only to hprevious, which it also
\* loads from, but no thread loads a cell that another thread stores: the one
\* cell a thread loads from hprevious is its own, hcurrent is never stored to,
\* and so every cell a thread loads still holds its value from launch when the
\* thread runs.
C17_NoThreadLoadsAnothersStore ==
    (kernel.name = "wave_solve") =>
        /\ (pending = Cells(kernel.width, kernel.height)) =>
              /\ BuffersStored(kernel) = {kernel.hprevious}
              /\ BuffersLoaded(kernel) = {kernel.hcurrent, kernel.hprevious}
              /\ \A t1 \in pending :
                    /\ wave_solve_loads(kernel, t1) \cap wave_solve_stores(kernel, t1)
                          = {<<kernel.hprevious, t1>>}
                    /\ \A t2 \in pending \ {t1} :
                          wave_solve_loads(kernel, t1)
                              \cap wave_solve_stores(kernel, t2) = {}
        /\ \A tid \in pending :
              \A p \in wave_solve_loads(kernel, tid) :
                 store[p[1]][p[2]] = entry.store[p[1]][p[2]]

C17_Witness ==
    /\ kernel.name = "wave_solve"
    /\ kernel.width = 3
    /\ kernel.height = 3
    /\ 4 \notin pending
    /\ store[kernel.hprevious][4] # entry.store[kernel.hprevious][4]
    /\ \E tid \in pending : <<kernel.hcurrent, 4>> \in wave_solve_loads(kernel, tid)

\* the host array that an argument of grid_update is bound to (line 247)
HostBuffer(b) == IF b = "heights" THEN sim_host ELSE verts_host

InRange(buffer, idx) ==
    /\ idx \in Cells(sim_width, sim_height)
    /\ idx \in DOMAIN buffer

\* C18: every buffer access is in range: on every grid with W, H >= 1, the
\* index sample loads for any integers x, y, and every index that a thread of
\* wave_displace, wave_solve (whose stencil reaches x-1, x+1, y-1, y+1 from
\* the edge cells) or grid_update loads or stores, lies in 0 .. W*H-1, and
\* every thread index does.
C18_AccessesInRange ==
    /\ pending \subseteq Cells(sim_width, sim_height)
    /\ probe # NoProbe =>
          /\ probe.idx = sample_index(probe.x, probe.y, sim_width, sim_height)
          /\ InRange(store[probe.f], probe.idx)
    /\ kernel.name = "wave_displace" =>
          \A tid \in pending :
             \A p \in wave_displace_stores(kernel, tid) : InRange(store[p[1]], p[2])
    /\ kernel.name = "wave_solve" =>
          \A tid \in pending :
             /\ \A p \in wave_solve_loads(kernel, tid) : InRange(store[p[1]], p[2])
             /\ \A p \in wave_solve_stores(kernel, tid) : InRange(store[p[1]], p[2])
    /\ kernel.name = "grid_update" =>
          \A tid \in pending :
             /\ \A p \in grid_update_loads(tid) : InRange(HostBuffer(p[1]), p[2])
             /\ \A p \in grid_update_stores(tid) : InRange(HostBuffer(p[1]), p[2])

C18_Witness ==
    /\ kernel.name = "wave_solve"
    /\ kernel.width = 1
    /\ kernel.height = 3
    /\ pending = {}
    /\ wave_solve_loads(kernel, 2)
          = {<<kernel.hcurrent, 1>>, <<kernel.hcurrent, 2>>, <<kernel.hprevious, 2>>}
    /\ store[kernel.hprevious][2] # entry.store[kernel.hprevious][2]

\* the device-to-host copies so far, in order
Copies == SelectSeq(launches, IsCopy)

\* the storage that sim_grid0 names after k swaps
Grid0After(k) == IF k % 2 = 0 THEN 1 ELSE 2

\* C19: the labels keep parity with the substeps: after k substeps sim_grid0
\* names the first storage when k is even and the second when k is odd, and
\* sim_grid1 the other one; consecutive wave_solve launches write to
\* alternating storages; the copy that ends frame j reads the storage that
\* sim_grid0 names after j*sim_substeps swaps, which is the same storage in
\* every frame when sim_substeps is even.
C19_LabelParity ==
    /\ sim_grid0 = Grid0After(Swaps)
    /\ sim_grid1 = Grid0After(Swaps + 1)
    /\ \A n \in 1..Len(Solves) :
          /\ Solves[n].hprevious = Grid0After(n - 1)
          /\ Solves[n].hcurrent = Grid0After(n)
          /\ n > 1 => Solves[n].hprevious # Solves[n - 1].hprevious
    /\ \A j \in 1..Len(Copies) :
          /\ Copies[j].src = Grid0After(j * Substeps)
          /\ Substeps % 2 = 0 => Copies[j].src = Copies[1].src

C19_Witness ==
    /\ pc = "sync"
    /\ Len(Copies) = Frames
    /\ Swaps = Frames * Substeps
    /\ Len(Solves) = Frames * Substeps
    /\ Solves[Len(Solves)].hprevious # sim_grid0
    /\ store[1] # store[2]

===========================================================================
